---- MODULE Spec2Model ----
(***************************************************************************)
(* Model of the client-side cache bootstrap and persistence layer of the   *)
(* Contentful projects page: src/src/main.tsx (QueryClient defaults, the   *)
(* cache restore block, the query-cache subscription, the render call) and *)
(* the useFetchProjects hook with its fetchProjects transform              *)
(* (src/unnamed/part_004).                                                 *)
(*                                                                         *)
(* Time is in milliseconds, as Date.now() gives it.  localStorage entries  *)
(* are strings: the timestamp entry is modelled as its sequence of         *)
(* characters, the data entry as the JSON document the text denotes (or a  *)
(* text that is no JSON at all).                                           *)
(***************************************************************************)
EXTENDS Integers, Sequences, FiniteSets

VARIABLES
    now,        \* Date.now()
    mode,       \* how localStorage behaves during this page load
    lsData,     \* localStorage entry REACT_QUERY_CACHE
    lsStamp,    \* localStorage entry REACT_QUERY_CACHE_TIMESTAMP
    pc,         \* position of the page's script: boot, subscribed, running, crashed
    q,          \* state of the query ["projects"] in the QueryClient's cache
    observers,  \* number of mounted useQuery observers of ["projects"]
    last,       \* history: the step of the page taken last (the clock's ticks aside)
    writes,     \* history: completed record writes made by the last step
    boot,       \* history: what the restore block read and when (until the UI mounts)
    memOrigin,  \* history: when the data now in memory was fetched remotely (-1: never/unknown)
    lsOrigin,   \* history: when the data now in lsData was fetched remotely (-1: never/unknown)
    inflight,   \* remote getEntries calls sent and not yet answered
    calls,      \* history: remote calls made by the fetch cycle in flight, or by the
                \* cycle the last step ended (0: neither)
    response,   \* fetchProjects on its own: response.items
    mappedProjects, \* fetchProjects on its own: what it returns (None before it ran)
    tabs,       \* two tabs on one localStorage: each tab's position, fetched list, write time
    writer      \* history: the tab that made the latest setItem call ("none": no call yet)

vars ==
    <<now, mode, lsData, lsStamp, pc, q, observers, last, writes, boot,
      memOrigin, lsOrigin, inflight, calls, response, mappedProjects, tabs, writer>>

\* The page's variables, and those of fetchProjects run on its own
pageVars ==
    <<now, mode, lsData, lsStamp, pc, q, observers, last, writes, boot,
      memOrigin, lsOrigin, inflight, calls>>
transformVars == <<response, mappedProjects>>
tabVars == <<tabs, writer>>

-----------------------------------------------------------------------------
(* Bounds of the model *)

MaxEpochs == 1      \* the clock is sampled around 0, TTL, ..., MaxEpochs * TTL
MaxObservers == 2   \* simultaneously mounted consumers of the hook
MaxItems == 3       \* items in a response given to fetchProjects on its own

-----------------------------------------------------------------------------
(* Program constants *)

CACHE_KEY == "REACT_QUERY_CACHE"
CACHE_TIMESTAMP_KEY == "REACT_QUERY_CACHE_TIMESTAMP"
CACHE_DURATION == 1000 * 60 * 5
\* Mutant of staleTime: ten minutes, the value of gcTime
StaleTimeTenMinutes == 1000 * 60 * 10
staleTime == 1000 * 60 * 5
retry == 1
ProjectsKey == "projects"

-----------------------------------------------------------------------------
(* Optional values: undefined is <<>>, a defined value v is <<v>> *)

None == <<>>
Some(v) == <<v>>
IsSome(o) == Len(o) > 0
Get(o) == o[1]

-----------------------------------------------------------------------------
(* The clock: instants around the multiples of the TTL *)

Times == { t \in { k * CACHE_DURATION + d : k \in 0..MaxEpochs, d \in {-1, 0, 1} } : t >= 0 }

-----------------------------------------------------------------------------
(* Number <-> string, as Date.now().toString() and parseInt(s, 10) do it *)

DigitChars == <<"0", "1", "2", "3", "4", "5", "6", "7", "8", "9">>

RECURSIVE NumToString(_)
NumToString(n) ==
    IF n < 0 THEN <<"-">> \o NumToString(0 - n)
    ELSE IF n < 10 THEN <<DigitChars[n + 1]>>
    ELSE NumToString(n \div 10) \o <<DigitChars[(n % 10) + 1]>>

IsDigit(c) == \E i \in 1..10 : DigitChars[i] = c
DigitVal(c) == (CHOOSE i \in 1..10 : DigitChars[i] = c) - 1

RECURSIVE SkipSpaces(_)
SkipSpaces(s) == IF Len(s) > 0 /\ Head(s) = " " THEN SkipSpaces(Tail(s)) ELSE s

RECURSIVE LeadingDigits(_)
LeadingDigits(s) ==
    IF Len(s) > 0 /\ IsDigit(Head(s)) THEN <<Head(s)>> \o LeadingDigits(Tail(s)) ELSE <<>>

RECURSIVE DigitsValue(_)
DigitsValue(ds) ==
    IF Len(ds) = 0 THEN 0
    ELSE 10 * DigitsValue(SubSeq(ds, 1, Len(ds) - 1)) + DigitVal(ds[Len(ds)])

\* parseInt(s, 10): skips leading blanks, takes an optional sign and the
\* leading decimal digits; NaN when there is no digit.
ParseInt(s) ==
    LET t == SkipSpaces(s)
        neg == Len(t) > 0 /\ Head(t) = "-"
        u == IF Len(t) > 0 /\ Head(t) \in {"-", "+"} THEN Tail(t) ELSE t
        ds == LeadingDigits(u)
    IN  IF Len(ds) = 0 THEN [nan |-> TRUE, n |-> 0]
        ELSE [nan |-> FALSE, n |-> IF neg THEN 0 - DigitsValue(ds) ELSE DigitsValue(ds)]

-----------------------------------------------------------------------------
(* Data: remote entries, projects, JSON documents, JS values *)

\* A RemoteEntry: sys.id, fields.title, fields.url (required by the type, yet
\* possibly missing in a response) and the optional nested fields.image.
Entry(id, title, url, image) == [sysid |-> id, title |-> title, url |-> url, image |-> image]

FullImage(u) == Some([fields |-> Some([file |-> Some([url |-> Some(u)])])])

E1 == Entry("a", Some("T1"), Some("https://x"), FullImage("//img/1"))
E2 == Entry("b", Some("T2"), Some("https://y"), None)

\* Entries a response may hold against the type: no title, no url, and an
\* image that stops at each level of image.fields.file.url
E3 == Entry("c", None, Some("https://z"), FullImage("//img/3"))
E4 == Entry("d", Some("T4"), None, None)
E5 == Entry("e", Some("T5"), Some("https://v"), Some([fields |-> None]))
E6 == Entry("f", Some("T6"), Some("https://w"), Some([fields |-> Some([file |-> None])]))
E7 == Entry("g", Some("T7"), Some("https://u"),
            Some([fields |-> Some([file |-> Some([url |-> None])])]))

Entries == {E1, E2, E3, E4, E5, E6, E7}

\* What the remote collaborator may answer
Responses == { <<>>, <<E1>>, <<E2, E1>> }

\* The responses fetchProjects is run on when it is examined on its own
Inputs == UNION { [1..n -> Entries] : n \in 0..MaxItems }

\* Mutant of ImageUrl: only the image itself is tested
ImageUrlTopOnly(image) == IF IsSome(image) THEN Some("//img/1") ELSE None

\* image?.fields?.file?.url
ImageUrl(image) ==
    IF ~IsSome(image) THEN None
    ELSE IF ~IsSome(Get(image).fields) THEN None
    ELSE IF ~IsSome(Get(Get(image).fields).file) THEN None
    ELSE Get(Get(Get(image).fields).file).url

\* The body of response.items.map: { title, url, id, img }
MapItem(item) ==
    [title |-> item.title, url |-> item.url, id |-> Some(item.sysid), img |-> ImageUrl(item.image)]

\* Mutant of MappedProjects: the projects come out in reverse order
MappedProjectsReversed(items) ==
    [i \in 1..Len(items) |-> MapItem(items[Len(items) + 1 - i])]

\* fetchProjects on a response: one Project per item, in order
MappedProjects(items) == [i \in 1..Len(items) |-> MapItem(items[i])]

ProjectKeys == {"title", "url", "id", "img"}

\* JS values held as query data: undefined, null, an array
Undefined == [kind |-> "undefined", items |-> <<>>]
Null == [kind |-> "null", items |-> <<>>]
Array(items) == [kind |-> "array", items |-> items]

\* JS truthiness of a query data value: undefined and null are falsy, every
\* array (the empty one too) is truthy
TruthyValue(v) == v.kind = "array"

\* JSON.stringify of an object: members whose value is undefined are left out
StringifyObject(p) == [k \in { k \in ProjectKeys : IsSome(p[k]) } |-> Get(p[k])]

\* Texts a localStorage entry can hold: the empty string, a text that is no
\* JSON, or the JSON text of a document
EmptyText == [text |-> "empty", doc |-> Null]
GarbageText == [text |-> "garbage", doc |-> Null]
JsonText(doc) == [text |-> "json", doc |-> doc]

\* JSON.stringify(data) for the data the subscriber is given (truthy values)
JSONstringify(v) ==
    JsonText([kind |-> v.kind, items |-> [i \in 1..Len(v.items) |-> StringifyObject(v.items[i])]])

\* JSON.parse throws on the empty string and on any text that is no JSON
ParseThrows(t) == t.text # "json"

\* Mutant of ParseObject: the img member is not read back
ParseObjectNoImg(o) ==
    [k \in ProjectKeys |-> IF k \in DOMAIN o /\ k # "img" THEN Some(o[k]) ELSE None]

\* An object of the parsed document: a member the text does not have reads
\* as undefined
ParseObject(o) == [k \in ProjectKeys |-> IF k \in DOMAIN o THEN Some(o[k]) ELSE None]

\* JSON.parse(text) of a parsable text
JSONparse(t) ==
    [kind |-> t.doc.kind, items |-> [i \in 1..Len(t.doc.items) |-> ParseObject(t.doc.items[i])]]

-----------------------------------------------------------------------------
(* localStorage *)

\* getItem gives null for a missing key
Absent(empty) == [present |-> FALSE, val |-> empty]
Present(v) == [present |-> TRUE, val |-> v]

NoData == Absent(EmptyText)
NoStamp == Absent(<<>>)

\* JS truthiness of what getItem returned: null and "" are falsy
TruthyData(e) == e.present /\ e.val.text # "empty"
\* Mutant of TruthyStamp: the timestamp entry is not tested
TruthyStampAlways(e) == TRUE

TruthyStamp(e) == e.present /\ Len(e.val) > 0

\* Storage behaviour during one page load: "ok", "full" (setItem throws a
\* quota error; getItem and removeItem work), "denied" (every access throws)
Modes == {"ok", "full", "denied"}

GetThrows(m) == m = "denied"
RemoveThrows(m) == m = "denied"

\* Outcomes of the subscriber's two setItem calls: "ok", "fail1" (the first
\* setItem throws), "fail2" (the first succeeds, the second throws)
WriteOutcomes(m) ==
    IF m = "ok" THEN {"ok"} ELSE IF m = "full" THEN {"fail1", "fail2"} ELSE {"fail1"}

-----------------------------------------------------------------------------
(* The cache restore block (hydration) *)

\* Mutants of IsFresh: the comparison reversed, and the boundary included
IsFreshReversed(ts, t) == ~ts.nan /\ t - ts.n > CACHE_DURATION
IsFreshInclusive(ts, t) == ~ts.nan /\ t - ts.n <= CACHE_DURATION

\* now - timestamp < CACHE_DURATION; every comparison with NaN is false
IsFresh(ts, t) == ~ts.nan /\ t - ts.n < CACHE_DURATION

\* Mutant of RestoreCatch: a catch block that only warns
RestoreCatchWarnOnly(d, s, m) == [data |-> d, stamp |-> s, seed |-> None, threw |-> FALSE]

\* The catch block: warn, then removeItem twice, outside any try
RestoreCatch(d, s, m) ==
    IF RemoveThrows(m)
    THEN [data |-> d, stamp |-> s, seed |-> None, threw |-> TRUE]
    ELSE [data |-> NoData, stamp |-> NoStamp, seed |-> None, threw |-> FALSE]

\* The try block followed by its catch: the entries it leaves, the value it
\* hands to setQueryData (if any), and whether an exception escapes
Restore(d, s, m, t) ==
    IF GetThrows(m) THEN RestoreCatch(d, s, m)
    ELSE IF TruthyData(d) /\ TruthyStamp(s)
    THEN IF IsFresh(ParseInt(s.val), t)
         THEN IF ParseThrows(d.val)
              THEN RestoreCatch(d, s, m)
              ELSE [data |-> d, stamp |-> s, seed |-> Some(JSONparse(d.val)), threw |-> FALSE]
         ELSE IF RemoveThrows(m)
              THEN RestoreCatch(d, s, m)
              ELSE [data |-> NoData, stamp |-> NoStamp, seed |-> None, threw |-> FALSE]
    ELSE [data |-> d, stamp |-> s, seed |-> None, threw |-> FALSE]

-----------------------------------------------------------------------------
(* The query ["projects"] and its reducer *)

\* No query in the cache yet: what an observer sees before the first fetch
NoQuery ==
    [data |-> Undefined, dataUpdatedAt |-> 0, status |-> "pending",
     fetchStatus |-> "idle", fetchFailureCount |-> 0]

\* Mutant of SetData: the value is appended to the list already held
SetDataMerged(s, value, t) ==
    [s EXCEPT !.data = IF s.data.kind = "array" /\ value.kind = "array"
                       THEN Array(s.data.items \o value.items) ELSE value,
              !.dataUpdatedAt = t, !.status = "success", !.fetchFailureCount = 0]

\* queryClient.setQueryData(["projects"], value): the value becomes the data,
\* updated at the time of the call
SetData(s, value, t) ==
    [s EXCEPT !.data = value, !.dataUpdatedAt = t, !.status = "success",
              !.fetchFailureCount = 0]

\* Mutant of FetchStarted: every fetch makes the query pending
FetchStartedPending(s) ==
    [s EXCEPT !.fetchStatus = "fetching", !.fetchFailureCount = 0, !.status = "pending"]

\* A fetch starts: pending only when there is no data
FetchStarted(s) ==
    [s EXCEPT !.fetchStatus = "fetching", !.fetchFailureCount = 0,
              !.status = IF s.data.kind = "undefined" THEN "pending" ELSE s.status]

\* The query function resolved with data
FetchSucceeded(s, value, t) ==
    [s EXCEPT !.data = value, !.dataUpdatedAt = t, !.status = "success",
              !.fetchStatus = "idle", !.fetchFailureCount = 0]

\* An attempt failed and a retry is left
AttemptFailed(s) == [s EXCEPT !.fetchFailureCount = @ + 1]

\* Mutant of FetchErrored: the failure is not recorded in the status
FetchErroredStatusKept(s) ==
    [s EXCEPT !.fetchFailureCount = @ + 1, !.fetchStatus = "idle"]

\* The last attempt failed: the data stays, the status is error
FetchErrored(s) ==
    [s EXCEPT !.fetchFailureCount = @ + 1, !.status = "error", !.fetchStatus = "idle"]

\* Mutant of ShouldRetry: one more retry
ShouldRetryTwice(s) == s.fetchFailureCount < retry + 1

\* retry: 1 - a failed attempt is retried while failureCount < retry
ShouldRetry(s) == s.fetchFailureCount < retry

\* Mutant of ShouldFetchOnMount: refetchOnMount "always"
ShouldFetchOnMountAlways(s) == TRUE

\* refetchOnMount: false - a mounting observer fetches only when the query
\* has no data
ShouldFetchOnMount(s) == s.data.kind = "undefined"

\* Mutant of StartsRequest: every caller sends its own request
StartsRequestAlways(s) == TRUE

\* useQuery callers of one key share the query: a fetch asked for while one
\* is in flight joins it, no second request is sent
StartsRequest(s) == s.fetchStatus = "idle"

\* Stale by time: no data, or staleTime elapsed since the data was updated
IsStale(s, t) == s.data.kind = "undefined" \/ t >= s.dataUpdatedAt + staleTime

\* Mutant of Projects: no default value in the destructuring
ProjectsNoDefault(s) == s.data

\* What the hook returns: { data: projects = [], isPending: loading }
Loading(s) == s.status = "pending"
Projects(s) == IF s.data.kind = "undefined" THEN Array(<<>>) ELSE s.data

-----------------------------------------------------------------------------
(* The query-cache subscription (persistence) *)

\* Mutant of Subscriber: an existing record is kept, only the first is written
SubscriberWritesOnce(key, value, d, s, out, t) ==
    IF key = ProjectsKey /\ TruthyValue(value) /\ out = "ok" /\ ~d.present
    THEN [data |-> Present(JSONstringify(value)), stamp |-> Present(NumToString(t)),
          wrote |-> 1, put |-> TRUE, threw |-> FALSE]
    ELSE [data |-> d, stamp |-> s, wrote |-> 0, put |-> FALSE, threw |-> FALSE]

\* Mutant of Subscriber: no try/catch around the two setItem calls
SubscriberNoCatch(key, value, d, s, out, t) ==
    IF key = ProjectsKey /\ TruthyValue(value)
    THEN IF out = "ok"
         THEN [data |-> Present(JSONstringify(value)), stamp |-> Present(NumToString(t)),
               wrote |-> 1, put |-> TRUE, threw |-> FALSE]
         ELSE IF out = "fail2"
         THEN [data |-> Present(JSONstringify(value)), stamp |-> s,
               wrote |-> 0, put |-> TRUE, threw |-> TRUE]
         ELSE [data |-> d, stamp |-> s, wrote |-> 0, put |-> FALSE, threw |-> TRUE]
    ELSE [data |-> d, stamp |-> s, wrote |-> 0, put |-> FALSE, threw |-> FALSE]

\* Mutant of Subscriber: the key of the event's query is not looked at
SubscriberAnyKey(key, value, d, s, out, t) ==
    IF TruthyValue(value)
    THEN IF out = "ok"
         THEN [data |-> Present(JSONstringify(value)), stamp |-> Present(NumToString(t)),
               wrote |-> 1, put |-> TRUE, threw |-> FALSE]
         ELSE IF out = "fail2"
         THEN [data |-> Present(JSONstringify(value)), stamp |-> s,
               wrote |-> 0, put |-> TRUE, threw |-> FALSE]
         ELSE [data |-> d, stamp |-> s, wrote |-> 0, put |-> FALSE, threw |-> FALSE]
    ELSE [data |-> d, stamp |-> s, wrote |-> 0, put |-> FALSE, threw |-> FALSE]

\* One call of the subscriber for an event of the query with key `key` and
\* state data `value`; `out` is how its two setItem calls end.  wrote counts
\* the completed writes of the record, put tells whether the data entry was
\* set, threw whether an exception leaves the subscriber (the catch only warns)
Subscriber(key, value, d, s, out, t) ==
    IF key = ProjectsKey /\ TruthyValue(value)
    THEN IF out = "ok"
         THEN [data |-> Present(JSONstringify(value)), stamp |-> Present(NumToString(t)),
               wrote |-> 1, put |-> TRUE, threw |-> FALSE]
         ELSE IF out = "fail2"
         THEN [data |-> Present(JSONstringify(value)), stamp |-> s,
               wrote |-> 0, put |-> TRUE, threw |-> FALSE]
         ELSE [data |-> d, stamp |-> s, wrote |-> 0, put |-> FALSE, threw |-> FALSE]
    ELSE [data |-> d, stamp |-> s, wrote |-> 0, put |-> FALSE, threw |-> FALSE]

\* Mutant of AfterSubscriber: the subscriber puts the data back with
\* setQueryData
AfterSubscriberSetData(s, t) == IF TruthyValue(s.data) THEN SetData(s, s.data, t) ELSE s

\* The query state s once the subscriber has run on it at time t: it reads
\* event.query.state.data and calls JSON.stringify, Date.now and setItem,
\* nothing that writes to the query
AfterSubscriber(s, t) == s

\* The cache notifies the subscriber once per event, n times in a row within
\* one dispatch.  The calls write the same texts at the same instant, so
\* their setItem calls end the same way, out.
RECURSIVE Notify(_, _, _, _, _, _, _)
Notify(key, value, d, s, n, out, t) ==
    IF n = 0
    THEN [data |-> d, stamp |-> s, wrote |-> 0, put |-> FALSE, threw |-> FALSE]
    ELSE LET r == Subscriber(key, value, d, s, out, t)
             rest == Notify(key, value, r.data, r.stamp, n - 1, out, t)
         IN  IF r.threw THEN r
             ELSE [rest EXCEPT !.wrote = @ + r.wrote, !.put = @ \/ r.put]

\* Events a state change of the query raises: one "updated" event and one
\* "observerResultsUpdated" event per mounted observer
UpdateEvents(n) == 1 + n

-----------------------------------------------------------------------------
(* State machine *)

\* What durable storage may hold when the page is first loaded
InitData ==
    { NoData, Present(EmptyText), Present(GarbageText), Present(JsonText(Null)),
      Present(JSONstringify(Array(MappedProjects(<<E2, E1>>)))) }

InitStamps ==
    { NoStamp, Present(<<>>), Present(<<"x">>), Present(NumToString(0)), Present(NumToString(1)) }

\* Nothing read yet by the restore block
NoBoot == [data |-> NoData, stamp |-> NoStamp, at |-> -1]

\* The page open in two tabs of one browser: each tab has its own script and
\* query cache, both use the one localStorage
Tabs == {"A", "B"}
NoTabs == [t \in Tabs |-> [pc |-> "fetching", value |-> Undefined, at |-> 0]]

Init ==
    /\ now = 0
    /\ mode \in Modes
    /\ lsData \in InitData
    /\ lsStamp \in InitStamps
    /\ pc = "boot"
    /\ q = NoQuery
    /\ observers = 0
    /\ last = "Init"
    /\ writes = 0
    /\ boot = NoBoot
    /\ memOrigin = -1
    /\ lsOrigin = -1
    /\ inflight = 0
    /\ calls = 0
    /\ response = <<>>
    /\ mappedProjects = None
    /\ tabs = NoTabs
    /\ writer = "none"

\* The query raised n events while its state data was `value`: the cache
\* calls the subscriber for each of them
Events(n, value) ==
    \E out \in WriteOutcomes(mode) :
        LET r == Notify(ProjectsKey, value, lsData, lsStamp, n, out, now)
        IN  /\ lsData' = r.data
            /\ lsStamp' = r.stamp
            /\ writes' = r.wrote
            /\ lsOrigin' = IF r.put THEN memOrigin' ELSE lsOrigin
            /\ pc' = IF r.threw THEN "crashed" ELSE "running"

\* The calls of the cycle in flight; a cycle that has ended is forgotten by
\* the step after the one that ended it
CallsInFlight == IF q.fetchStatus = "fetching" THEN calls ELSE 0

\* Time passes: the clock reaches the next sampled instant
Tick ==
    /\ \E t \in Times : t > now /\ now' = t /\ \A u \in Times : u > now => u >= t
    /\ UNCHANGED <<mode, lsData, lsStamp, pc, q, observers, last, writes, boot,
                   memOrigin, lsOrigin, inflight, calls>>
    /\ UNCHANGED <<transformVars, tabVars>>

\* main.tsx runs the cache restore block, then installs the subscription
Hydrate ==
    /\ pc = "boot"
    /\ LET r == Restore(lsData, lsStamp, mode, now)
       IN  /\ lsData' = r.data
           /\ lsStamp' = r.stamp
           /\ q' = IF IsSome(r.seed) THEN SetData(q, Get(r.seed), now) ELSE q
           /\ pc' = IF r.threw THEN "crashed" ELSE "subscribed"
           /\ memOrigin' = IF IsSome(r.seed) THEN lsOrigin ELSE memOrigin
           /\ lsOrigin' = IF r.data.present THEN lsOrigin ELSE -1
    /\ last' = "Hydrate"
    /\ writes' = 0
    /\ boot' = [data |-> lsData, stamp |-> lsStamp, at |-> now]
    /\ UNCHANGED <<now, mode, observers, inflight, calls>>
    /\ UNCHANGED <<transformVars, tabVars>>

\* A consumer of useFetchProjects mounts: its observer is added to the query
\* and asks for a fetch when the query has no data
Mount ==
    /\ pc \in {"subscribed", "running"}
    /\ observers < MaxObservers
    /\ observers' = observers + 1
    /\ memOrigin' = memOrigin
    /\ IF ShouldFetchOnMount(q) /\ StartsRequest(q)
       THEN /\ q' = AfterSubscriber(FetchStarted(q), now)
            /\ Events(1 + UpdateEvents(observers'), q'.data)
            /\ inflight' = inflight + 1
            /\ calls' = 1
       ELSE /\ q' = AfterSubscriber(q, now)
            /\ Events(1, q'.data)
            /\ inflight' = inflight
            /\ calls' = CallsInFlight
    /\ last' = "Mount"
    /\ boot' = NoBoot
    /\ UNCHANGED <<now, mode>>
    /\ UNCHANGED <<transformVars, tabVars>>

\* A consumer unmounts: its observer is removed from the query
Unmount ==
    /\ pc = "running"
    /\ observers > 0
    /\ observers' = observers - 1
    /\ memOrigin' = memOrigin
    /\ q' = AfterSubscriber(q, now)
    /\ Events(1, q'.data)
    /\ calls' = CallsInFlight
    /\ last' = "Unmount"
    /\ boot' = NoBoot
    /\ UNCHANGED <<now, mode, inflight>>
    /\ UNCHANGED <<transformVars, tabVars>>

\* The remote call returns items; fetchProjects maps them
FetchSuccess ==
    /\ pc = "running"
    /\ q.fetchStatus = "fetching"
    /\ memOrigin' = now
    /\ \E resp \in Responses :
         q' = AfterSubscriber(FetchSucceeded(q, Array(MappedProjects(resp)), now), now)
    /\ Events(UpdateEvents(observers), q'.data)
    /\ inflight' = inflight - 1
    /\ last' = "FetchSuccess"
    /\ boot' = NoBoot
    /\ UNCHANGED <<now, mode, observers, calls>>
    /\ UNCHANGED <<transformVars, tabVars>>

\* The remote call fails and is made again
FetchRetry ==
    /\ pc = "running"
    /\ q.fetchStatus = "fetching"
    /\ ShouldRetry(q)
    /\ memOrigin' = memOrigin
    /\ q' = AfterSubscriber(AttemptFailed(q), now)
    /\ Events(UpdateEvents(observers), q'.data)
    /\ calls' = calls + 1
    /\ last' = "FetchRetry"
    /\ boot' = NoBoot
    /\ UNCHANGED <<now, mode, observers, inflight>>
    /\ UNCHANGED <<transformVars, tabVars>>

\* The remote call fails and no retry is left
FetchError ==
    /\ pc = "running"
    /\ q.fetchStatus = "fetching"
    /\ ~ShouldRetry(q)
    /\ memOrigin' = memOrigin
    /\ q' = AfterSubscriber(FetchErrored(q), now)
    /\ Events(UpdateEvents(observers), q'.data)
    /\ inflight' = inflight - 1
    /\ last' = "FetchError"
    /\ boot' = NoBoot
    /\ UNCHANGED <<now, mode, observers, calls>>
    /\ UNCHANGED <<transformVars, tabVars>>

\* The network reconnects (refetchOnReconnect: true): a stale query with an
\* observer is refetched, unless a fetch is already in flight
Reconnect ==
    /\ pc = "running"
    /\ observers > 0
    /\ StartsRequest(q)
    /\ IsStale(q, now)
    /\ memOrigin' = memOrigin
    /\ q' = AfterSubscriber(FetchStarted(q), now)
    /\ Events(UpdateEvents(observers), q'.data)
    /\ inflight' = inflight + 1
    /\ calls' = 1
    /\ last' = "Reconnect"
    /\ boot' = NoBoot
    /\ UNCHANGED <<now, mode, observers>>
    /\ UNCHANGED <<transformVars, tabVars>>

\* The page is reloaded: memory and the requests in flight are lost, durable
\* storage stays
Reload ==
    /\ pc' = "boot"
    /\ q' = NoQuery
    /\ observers' = 0
    /\ mode' \in Modes
    /\ memOrigin' = -1
    /\ inflight' = 0
    /\ calls' = 0
    /\ last' = "Reload"
    /\ writes' = 0
    /\ boot' = NoBoot
    /\ UNCHANGED <<now, lsData, lsStamp, lsOrigin>>
    /\ UNCHANGED <<transformVars, tabVars>>

Next ==
    \/ Tick
    \/ Hydrate
    \/ Mount
    \/ Unmount
    \/ FetchSuccess
    \/ FetchRetry
    \/ FetchError
    \/ Reconnect
    \/ Reload

Spec == Init /\ [][Next]_vars

\* Remote calls return: a fetch in flight is eventually answered.  The first
\* page load finds either no entry or an entry written by the page itself,
\* localStorage behaves the same way at every load of the page, and at most
\* two consumers are mounted at a time.
LiveInit ==
    /\ Init
    /\ lsData \in { NoData, Present(JSONstringify(Array(MappedProjects(<<E2, E1>>)))) }
    /\ lsStamp \in { NoStamp, Present(NumToString(0)) }

LiveNext ==
    \/ Tick
    \/ Hydrate
    \/ (Mount /\ observers' <= 2)
    \/ Unmount
    \/ FetchSuccess
    \/ FetchRetry
    \/ FetchError
    \/ Reconnect
    \/ (Reload /\ mode' = mode)

LiveSpec ==
    LiveInit /\ [][LiveNext]_vars /\ WF_vars(FetchSuccess \/ FetchRetry \/ FetchError)

\* The page's runs in which localStorage works during every page load
OkInit == Init /\ mode = "ok"
OkNext ==
    \/ Tick
    \/ Hydrate
    \/ Mount
    \/ Unmount
    \/ FetchSuccess
    \/ FetchRetry
    \/ FetchError
    \/ Reconnect
    \/ (Reload /\ mode' = "ok")
OkSpec == OkInit /\ [][OkNext]_vars

\* The subscriber is called for every event of the query cache, whatever the
\* query: events of queries other than ["projects"], with any state data
OtherKeys == {"other"}
OtherValues == { Undefined, Array(<<>>), Array(MappedProjects(<<E1>>)) }

OtherEvent ==
    /\ pc \in {"subscribed", "running"}
    /\ \E key \in OtherKeys, value \in OtherValues, out \in WriteOutcomes(mode) :
         LET r == Subscriber(key, value, lsData, lsStamp, out, now)
         IN  /\ lsData' = r.data
             /\ lsStamp' = r.stamp
             /\ writes' = r.wrote
             /\ lsOrigin' = IF r.put THEN -1 ELSE lsOrigin
             /\ pc' = IF r.threw THEN "crashed" ELSE pc
    /\ q' = AfterSubscriber(q, now)
    /\ calls' = CallsInFlight
    /\ last' = "OtherEvent"
    /\ boot' = NoBoot
    /\ UNCHANGED <<now, mode, observers, memOrigin, inflight>>
    /\ UNCHANGED <<transformVars, tabVars>>

\* The page in a cache that holds other queries too; the first page load
\* finds either no entry or an entry written by the page itself
EventInit == LiveInit

EventNext ==
    \/ Tick
    \/ Hydrate
    \/ Mount
    \/ Unmount
    \/ FetchSuccess
    \/ FetchRetry
    \/ FetchError
    \/ Reconnect
    \/ Reload
    \/ OtherEvent

EventSpec == EventInit /\ [][EventNext]_vars

\* fetchProjects run on its own: the remote call has returned response.items,
\* the function maps them and returns
TransformInit ==
    /\ now = 0
    /\ mode = "ok"
    /\ lsData = NoData
    /\ lsStamp = NoStamp
    /\ pc = "boot"
    /\ q = NoQuery
    /\ observers = 0
    /\ last = "Init"
    /\ writes = 0
    /\ boot = NoBoot
    /\ memOrigin = -1
    /\ lsOrigin = -1
    /\ inflight = 0
    /\ calls = 0
    /\ response \in Inputs
    /\ mappedProjects = None
    /\ tabs = NoTabs
    /\ writer = "none"

MapResponse ==
    /\ mappedProjects = None
    /\ mappedProjects' = Some(MappedProjects(response))
    /\ UNCHANGED response
    /\ UNCHANGED <<pageVars, tabVars>>

TransformNext == MapResponse

TransformSpec == TransformInit /\ [][TransformNext]_vars

\* Two tabs, each past its restore block and waiting for its first fetch;
\* localStorage works and holds no record yet
TabsInit ==
    /\ now = 0
    /\ mode = "ok"
    /\ lsData = NoData
    /\ lsStamp = NoStamp
    /\ pc = "boot"
    /\ q = NoQuery
    /\ observers = 0
    /\ last = "Init"
    /\ writes = 0
    /\ boot = NoBoot
    /\ memOrigin = -1
    /\ lsOrigin = -1
    /\ inflight = 0
    /\ calls = 0
    /\ response = <<>>
    /\ mappedProjects = None
    /\ tabs = NoTabs
    /\ writer = "none"

\* The fetch of tab t succeeds: its query holds the mapped list and its
\* subscriber is called
TabFetched(t) ==
    /\ tabs[t].pc = "fetching"
    /\ \E resp \in Responses :
         tabs' = [tabs EXCEPT ![t].pc = "setData", ![t].value = Array(MappedProjects(resp))]
    /\ UNCHANGED <<pageVars, transformVars, writer>>

\* The subscriber of tab t: localStorage.setItem(CACHE_KEY, JSON.stringify(data))
TabSetData(t) ==
    /\ tabs[t].pc = "setData"
    /\ TruthyValue(tabs[t].value)
    /\ lsData' = Present(JSONstringify(tabs[t].value))
    /\ tabs' = [tabs EXCEPT ![t].pc = "setStamp"]
    /\ writer' = t
    /\ UNCHANGED <<now, mode, lsStamp, pc, q, observers, last, writes, boot,
                   memOrigin, lsOrigin, inflight, calls>>
    /\ UNCHANGED transformVars

\* The subscriber of tab t: localStorage.setItem(CACHE_TIMESTAMP_KEY, Date.now().toString())
TabSetStamp(t) ==
    /\ tabs[t].pc = "setStamp"
    /\ lsStamp' = Present(NumToString(now))
    /\ tabs' = [tabs EXCEPT ![t].pc = "done", ![t].at = now]
    /\ writer' = t
    /\ UNCHANGED <<now, mode, lsData, pc, q, observers, last, writes, boot,
                   memOrigin, lsOrigin, inflight, calls>>
    /\ UNCHANGED transformVars

\* A tab whose record is written fetches again (its data went stale)
TabRefetch(t) ==
    /\ tabs[t].pc = "done"
    /\ tabs' = [tabs EXCEPT ![t].pc = "fetching"]
    /\ UNCHANGED <<pageVars, transformVars, writer>>

TabsNext ==
    \/ Tick
    \/ \E t \in Tabs : TabFetched(t)
    \/ \E t \in Tabs : TabSetData(t)
    \/ \E t \in Tabs : TabSetStamp(t)
    \/ \E t \in Tabs : TabRefetch(t)

TabsSpec == TabsInit /\ [][TabsNext]_vars

-----------------------------------------------------------------------------
(* Properties *)

\* The instants t the timestamp entry e denotes, i.e. e holds t.toString()
StoredAt(e) == { t \in Times : e.present /\ e.val = NumToString(t) }

\* The restore block read a data entry holding JSON text
ReadJson == boot.data.present /\ boot.data.val.text = "json"

\* text is the JSON text of the array of exactly these projects, in order,
\* each with its defined members and no other
SerializesTo(items, text) ==
    /\ text.text = "json"
    /\ text.doc.kind = "array"
    /\ Len(text.doc.items) = Len(items)
    /\ \A i \in 1..Len(items) :
         /\ DOMAIN text.doc.items[i] = { k \in ProjectKeys : IsSome(items[i][k]) }
         /\ \A k \in DOMAIN text.doc.items[i] : text.doc.items[i][k] = Get(items[i][k])

\* C1: when storage is readable and holds a parsable data entry and a
\* timestamp entry t with now - t < TTL at hydration, then right after
\* hydration the query ["projects"] holds exactly the parsed data, and this
\* is before any consumer mounts: no observer exists until hydration has run.
C1_FreshRecordHydrated ==
    /\ (last = "Hydrate" /\ mode # "denied" /\ ReadJson
        /\ \E t \in StoredAt(boot.stamp) : boot.at - t < CACHE_DURATION)
       => (pc = "subscribed" /\ observers = 0 /\ q.status = "success"
           /\ q.data = JSONparse(boot.data.val))
    /\ (pc \in {"boot", "subscribed", "crashed"} => observers = 0)

C1_Witness ==
    /\ last = "Hydrate" /\ pc = "subscribed" /\ observers = 0
    /\ boot.stamp = Present(NumToString(1)) /\ boot.at = CACHE_DURATION
    /\ q.data.kind = "array" /\ Len(q.data.items) = 2

\* C2: for a stored record (parsable data, timestamp t) read from working
\* storage, hydration seeds the query iff now - t < TTL, and when
\* now - t >= TTL (the boundary included) both entries are deleted and the
\* in-memory cache is left empty.
C2_FreshnessBoundary ==
    (last = "Hydrate" /\ mode # "denied" /\ ReadJson)
    => \A t \in StoredAt(boot.stamp) :
         /\ ((q.data.kind # "undefined") <=> (boot.at - t < CACHE_DURATION))
         /\ (boot.at - t >= CACHE_DURATION
             => (~lsData.present /\ ~lsStamp.present /\ q = NoQuery /\ pc = "subscribed"))

C2_Witness ==
    /\ last = "Hydrate" /\ mode # "denied" /\ ReadJson
    /\ boot.stamp = Present(NumToString(0)) /\ boot.at = CACHE_DURATION
    /\ ~lsData.present /\ ~lsStamp.present /\ q = NoQuery

\* C3 as stated (storage working): whenever the stored data value fails to
\* parse, hydration deletes both entries, leaves the in-memory cache empty
\* and does not throw, whatever the stored timestamp is.
C3_Original ==
    (last = "Hydrate" /\ mode # "denied" /\ boot.data.present /\ boot.data.val.text # "json")
    => (pc = "subscribed" /\ ~lsData.present /\ ~lsStamp.present /\ q = NoQuery)

\* C3 amended: whenever the stored data value is a non-empty text that fails
\* to parse and the timestamp entry is present and non-empty, hydration (with
\* working storage) deletes both entries, leaves the in-memory cache empty
\* and does not throw, whatever the value of the timestamp.
C3_CorruptedRecordDeleted ==
    (last = "Hydrate" /\ mode # "denied"
     /\ boot.data.present /\ boot.data.val.text = "garbage"
     /\ boot.stamp.present /\ Len(boot.stamp.val) > 0)
    => (pc = "subscribed" /\ ~lsData.present /\ ~lsStamp.present /\ q = NoQuery)

C3_Witness ==
    /\ last = "Hydrate" /\ mode # "denied" /\ pc = "subscribed"
    /\ boot.data = Present(GarbageText)
    /\ boot.stamp = Present(NumToString(1)) /\ boot.at = 1
    /\ ~lsData.present /\ ~lsStamp.present /\ q = NoQuery

\* C4: hydration never throws: whatever storage operation fails, the error is
\* contained, the in-memory cache is left empty and startup goes on to mount
\* the UI.
C4_HydrationNeverThrows ==
    last = "Hydrate" => (pc = "subscribed" /\ (mode = "denied" => q = NoQuery))

\* C5: after a successful fetch with working storage the data entry is the
\* serialization of exactly the fetched list (whatever was stored before) and
\* the timestamp entry is the time of that write.
C5_PersistAfterFetch ==
    (last = "FetchSuccess" /\ mode = "ok")
    => /\ lsData.present
       /\ SerializesTo(q.data.items, lsData.val)
       /\ lsStamp = Present(NumToString(q.dataUpdatedAt))

C5_Witness ==
    /\ last = "FetchSuccess" /\ mode = "ok" /\ q.dataUpdatedAt > 0
    /\ Len(q.data.items) = 1
    /\ lsData = Present(JSONstringify(q.data))
    /\ lsStamp = Present(NumToString(q.dataUpdatedAt))

\* C6: one successful fetch causes exactly one write of the (data, timestamp)
\* record to durable storage.
C6_WrittenExactlyOnce ==
    (last = "FetchSuccess" /\ mode = "ok") => writes = 1

\* C7: over any sequence of page loads and cache events (localStorage
\* working throughout), hydration never seeds the in-memory cache with data
\* whose remote fetch completed TTL or longer ago.
C7_NoSeedPastTTL ==
    (last = "Hydrate" /\ q.data.kind # "undefined" /\ memOrigin >= 0)
    => boot.at - memOrigin < CACHE_DURATION

\* C8: when the durable write fails after a successful fetch, nothing
\* propagates: the page keeps running, the query holds the fetched data and
\* the hook returns it with loading = false.
C8_PersistFailureContained ==
    (last = "FetchSuccess" /\ mode # "ok")
    => /\ pc = "running"
       /\ q.status = "success"
       /\ q.data \in { Array(MappedProjects(r)) : r \in Responses }
       /\ memOrigin = q.dataUpdatedAt
       /\ ~Loading(q)
       /\ Projects(q) = q.data

C8_Witness ==
    /\ last = "FetchSuccess" /\ mode = "full" /\ writes = 0 /\ pc = "running"
    /\ ~lsStamp.present
    /\ Len(q.data.items) = 2 /\ ~Loading(q)

\* C9: in every reachable state, data present in the in-memory cache implies
\* loading = false, also while a background refetch is in flight.
C9_DataImpliesNotLoading ==
    q.data.kind # "undefined" => ~Loading(q)

C9_Witness ==
    /\ pc = "running" /\ q.fetchStatus = "fetching"
    /\ q.data.kind = "array" /\ ~Loading(q)

\* C10: when the fetch and its retry have failed, the page keeps running and
\* the hook returns the data it returned before (the empty sequence when
\* there was none) with loading = false; and when remote calls return,
\* loading eventually becomes false.
C10_FailureResolves ==
    /\ [][(q.fetchStatus = "fetching" /\ last' = "FetchError")
          => (/\ pc' = "running"
              /\ ~Loading(q')
              /\ q'.data = q.data
              /\ Projects(q') = Projects(q)
              /\ (q.data.kind = "undefined" => Projects(q') = Array(<<>>)))]_vars
    /\ (pc = "running" /\ Loading(q)) ~> (pc # "running" \/ ~Loading(q))

C10_Witness ==
    /\ last = "FetchError" /\ pc = "running"
    /\ q.data.kind = "undefined" /\ q.status = "error"
    /\ q.fetchFailureCount = retry + 1 /\ ~Loading(q)

\* C11: whatever the number of consumers that call the hook at once, at most
\* one remote request for ["projects"] is in flight at any time (a caller
\* that arrives while one is in flight joins it), and what the request
\* resolved to is the one value the hook returns to every consumer.
C11_Deduplicated ==
    /\ inflight <= 1
    /\ (inflight = 1 <=> q.fetchStatus = "fetching")
    /\ (last = "FetchSuccess"
        => (inflight = 0 /\ Projects(q) \in { Array(MappedProjects(r)) : r \in Responses }))

C11_Witness ==
    /\ last = "Mount" /\ observers = 2
    /\ q.fetchStatus = "fetching" /\ inflight = 1 /\ calls = 1

C13_NoRequestWhileFresh ==
    (q.data.kind # "undefined" /\ ~IsStale(q, now)) => (inflight = 0 /\ q.fetchStatus = "idle")

C13_Witness ==
    /\ last = "Mount" /\ observers = 2 /\ pc = "running"
    /\ q.data.kind = "array" /\ memOrigin # q.dataUpdatedAt
    /\ now > q.dataUpdatedAt /\ ~IsStale(q, now)
    /\ inflight = 0 /\ calls = 0

\* C14: when the data entry was written by the page from a fetched list L
\* (projects without img included) and hydration reads it from working
\* storage within TTL of the stored timestamp, the query is seeded with a
\* list equal to L: same length, same order, every member of every project.
C14_RoundTrip ==
    (last = "Hydrate" /\ mode # "denied" /\ lsOrigin >= 0 /\ ReadJson
     /\ \E t \in StoredAt(boot.stamp) : boot.at - t < CACHE_DURATION)
    => \E r \in Responses :
         /\ SerializesTo(MappedProjects(r), boot.data.val)
         /\ q.status = "success"
         /\ q.data = Array(MappedProjects(r))

C14_Witness ==
    /\ last = "Hydrate" /\ mode # "denied" /\ pc = "subscribed"
    /\ lsOrigin >= 0 /\ boot.at > lsOrigin
    /\ boot.stamp = Present(NumToString(lsOrigin))
    /\ q.data = Array(MappedProjects(<<E2, E1>>))
    /\ ~IsSome(q.data.items[1].img) /\ IsSome(q.data.items[2].img)

\* fetchProjects has returned
Mapped == IsSome(mappedProjects)

\* C15: for every response, fetchProjects returns as many projects as the
\* response has items, and the i-th project carries the sys.id of the i-th
\* item: no entry is dropped, duplicated or reordered.
C15_OrderPreserved ==
    Mapped
    => /\ Len(Get(mappedProjects)) = Len(response)
       /\ \A i \in 1..Len(response) : Get(mappedProjects)[i].id = Some(response[i].sysid)

C15_Witness ==
    /\ Mapped /\ Len(response) = 3
    /\ response[1].sysid = "b" /\ response[2].sysid = "a" /\ response[3].sysid = "b"
    /\ Get(mappedProjects)[1].id = Some("b")
    /\ Get(mappedProjects)[2].id = Some("a")
    /\ Get(mappedProjects)[3].id = Some("b")

\* C16: for a batch in which an entry lacks the required title (or url),
\* fetchProjects does not throw and drops nothing: it returns one project per
\* entry, and the missing field of the malformed entry's project is the
\* empty string.
C16_MissingFieldIsEmptyString ==
    Mapped
    => /\ Len(Get(mappedProjects)) = Len(response)
       /\ \A i \in 1..Len(response) :
            /\ (~IsSome(response[i].title) => Get(mappedProjects)[i].title = Some(""))
            /\ (~IsSome(response[i].url) => Get(mappedProjects)[i].url = Some(""))

\* The file URLs of the entries whose image chain is complete
FileUrls == {"//img/1", "//img/3"}

\* C17: for every entry of every response, the project's id, title and url
\* are the entry's sys.id, fields.title and fields.url as they are; when the
\* chain image.fields.file.url is complete img is that file URL, and when the
\* image is missing at any level of the chain the project has no img.
C17_OptionalImage ==
    Mapped
    => \A i \in 1..Len(response) :
         LET e == response[i]
             p == Get(mappedProjects)[i]
         IN  /\ p.id = Some(e.sysid)
             /\ p.title = e.title
             /\ p.url = e.url
             /\ \A u \in FileUrls : (e.image = FullImage(u) => p.img = Some(u))
             /\ ((\A u \in FileUrls : e.image # FullImage(u)) => p.img = None)

C17_Witness ==
    /\ Mapped /\ response = <<E6, E1, E7>>
    /\ Get(mappedProjects)[1].img = None
    /\ Get(mappedProjects)[2].img = Some("//img/1")
    /\ Get(mappedProjects)[3].img = None
    /\ Get(mappedProjects)[1].title = Some("T6")

\* C18: the duration hydration compares the record's age with equals the
\* duration the in-memory cache compares the data's age with, 5 minutes both;
\* so for data whose stored timestamp is the time the in-memory data was
\* updated, the record is fresh for hydration exactly when the in-memory
\* data is not stale, at every instant.
C18_SingleFreshnessDuration ==
    /\ CACHE_DURATION = staleTime
    /\ CACHE_DURATION = 5 * 60 * 1000
    /\ \A t \in StoredAt(lsStamp) :
         (q.data.kind # "undefined" /\ t = q.dataUpdatedAt)
         => (IsFresh(ParseInt(lsStamp.val), now) <=> ~IsStale(q, now))

C18_Witness ==
    /\ q.data.kind = "array"
    /\ lsStamp = Present(NumToString(q.dataUpdatedAt))
    /\ now - q.dataUpdatedAt = CACHE_DURATION
    /\ IsStale(q, now) /\ ~IsFresh(ParseInt(lsStamp.val), now)

\* C19: a cache event of a query whose key is not "projects" never changes
\* the durable data entry or the durable timestamp entry, whatever the state
\* data of that query and however localStorage behaves.
C19_KeyFilter ==
    [][(last' = "OtherEvent" /\ now' = now)
       => (lsData' = lsData /\ lsStamp' = lsStamp /\ writes' = 0)]_vars

C19_Witness ==
    /\ last = "OtherEvent" /\ mode = "ok" /\ pc = "running" /\ writes = 0
    /\ q.data.kind = "array" /\ lsData = Present(JSONstringify(q.data))
    /\ \E t \in StoredAt(lsStamp) : t < now

\* C20: the subscriber changes nothing but durable storage.  A step in which
\* only the subscriber runs (an observer removed, an event of another query)
\* leaves the query as it was, data and update time included, and a step in
\* which the query changes leaves it exactly as the query layer made it,
\* whether the writes to localStorage succeed or fail.
C20_PersistenceFrame ==
    [][now' = now
       => /\ (last' \in {"Unmount", "OtherEvent"} => q' = q)
          /\ (last' = "Mount" => q' \in {q, FetchStarted(q)})
          /\ (last' = "Reconnect" => q' = FetchStarted(q))
          /\ (last' = "FetchRetry" => q' = AttemptFailed(q))
          /\ (last' = "FetchError" => q' = FetchErrored(q))
          /\ (last' = "FetchSuccess"
              => \E r \in Responses : q' = FetchSucceeded(q, Array(MappedProjects(r)), now))]_vars

C20_Witness ==
    /\ last = "Unmount" /\ mode = "ok" /\ pc = "running" /\ writes = 1
    /\ q.status = "success" /\ q.data.kind = "array"
    /\ lsStamp = Present(NumToString(now)) /\ q.dataUpdatedAt < now

\* The restore block run once more, at the same instant, on what it left
Rerun == Restore(lsData, lsStamp, mode, now)

\* C21: with neither entry present, hydration changes neither durable
\* storage nor the in-memory cache; and running the restore block a second
\* time at the same instant leaves the durable entries and the query as the
\* first run left them.
C21_HydrationIdempotent ==
    /\ (last = "Hydrate" /\ ~boot.data.present /\ ~boot.stamp.present)
       => (lsData = boot.data /\ lsStamp = boot.stamp /\ q = NoQuery)
    /\ (last = "Hydrate" /\ boot.at = now)
       => /\ Rerun.data = lsData
          /\ Rerun.stamp = lsStamp
          /\ (IF IsSome(Rerun.seed) THEN SetData(q, Get(Rerun.seed), now) ELSE q) = q
          /\ Rerun.threw = (pc = "crashed")

C21_Witness ==
    /\ last = "Hydrate" /\ boot.at = now /\ pc = "subscribed"
    /\ q.data.kind = "array" /\ Len(q.data.items) = 2
    /\ IsSome(Rerun.seed) /\ lsData.present /\ lsStamp.present

\* Both tabs have written their record
TabsDone == \A t \in Tabs : tabs[t].pc = "done"

\* C22: when two tabs each persist a fetched list to the same two keys, then
\* under every interleaving of their setItem calls the record left in
\* storage is the complete pair (data, timestamp) of the tab that wrote last.
C22_LastWriterWins ==
    TabsDone
    => /\ lsData = Present(JSONstringify(tabs[writer].value))
       /\ lsStamp = Present(NumToString(tabs[writer].at))

\* C23: in every state in which the query ["projects"] has no data (before
\* the first response, while it is awaited, after a failed first fetch), the
\* hook returns the empty sequence as projects.
C23_ProjectsDefaultEmpty ==
    q.data.kind = "undefined"
    => (Projects(q).kind = "array" /\ Len(Projects(q).items) = 0)

C23_Witness ==
    /\ last = "FetchError" /\ pc = "running" /\ observers > 0
    /\ q.status = "error" /\ q.data.kind = "undefined"
    /\ Projects(q) = Array(<<>>)

\* C24: whenever a consumer consults the hook (mounts) while the query has
\* no data or its data is stale, a remote fetch is in flight afterwards; and
\* when a fetch succeeds with working storage, its mapped result is the
\* query's data and the durable data entry.
C24_StalenessTriggersFetch ==
    [][now' = now
       => /\ ((last' = "Mount" /\ (q.data.kind = "undefined" \/ IsStale(q, now)))
              => (q'.fetchStatus = "fetching" /\ inflight' = 1))
          /\ ((last' = "FetchSuccess" /\ mode = "ok")
              => (q'.status = "success" /\ lsData' = Present(JSONstringify(q'.data))))]_vars

\* C25: the subscriber writes only for non-empty result data: a fetch that
\* completes with an empty list writes no record to durable storage.
C25_NoWriteForEmptyList ==
    (last = "FetchSuccess" /\ q.data = Array(<<>>))
    => (writes = 0 /\ lsData # Present(JSONstringify(Array(<<>>))))

\* C26: the durable timestamp changes only when a fetch succeeded: a cache
\* event that carries no new result (a consumer mounting on hydrated data, a
\* consumer unmounting, a fetch starting, a failed attempt or a failed refetch
\* while earlier data is still held) leaves both storage entries unchanged.
C26_StampOnlyOnSuccess ==
    [][(now' = now
        /\ last' \in {"Mount", "Unmount", "Reconnect", "FetchRetry", "FetchError"})
       => (lsData' = lsData /\ lsStamp' = lsStamp)]_vars

\* The two storage entries are both absent or both present
Paired == lsData.present <=> lsStamp.present

\* C27: the record pairing invariant: the data entry and the timestamp entry
\* are either both absent or both present, and no step of the page takes
\* storage from a paired state to an unpaired one, also when one of the two
\* writes of a persistence call fails.
C27_RecordPaired ==
    [][Paired => Paired']_vars

\* C28: whatever durable storage held, the hook's projects value is always an
\* ordered sequence: a stored value that parses but is not a list is never
\* handed to the consumers.
C28_ProjectsIsSequence ==
    observers > 0 => Projects(q).kind = "array"

\* C29: in-memory freshness follows the stored timestamp: data seeded by
\* hydration from a record stored at time t is judged stale from t + TTL on,
\* not from the hydration time + TTL.
C29_FreshnessFollowsStoredStamp ==
    (last = "Hydrate" /\ q.data.kind # "undefined")
    => \A t \in StoredAt(boot.stamp) :
           t <= boot.at => \A u \in Times : IsStale(q, u) <=> u >= t + CACHE_DURATION

\* C30: a half-present record: when exactly one of the two entries exists at
\* page load, hydration seeds nothing and leaves storage as it found it, so
\* the orphan entry survives the restore block.
C30_HalfRecordIgnored ==
    (last = "Hydrate" /\ (boot.data.present # boot.stamp.present))
    => (lsData = boot.data /\ lsStamp = boot.stamp /\ q = NoQuery)

C30_Witness ==
    /\ last = "Hydrate" /\ pc = "subscribed" /\ mode = "ok"
    /\ boot.data.present /\ boot.data.val.text = "json" /\ ~boot.stamp.present
    /\ lsData = boot.data /\ ~lsStamp.present
    /\ q = NoQuery

====
